---- MODULE Spec2Model ----
(***************************************************************************)
(* Position hierarchy of the employee-management backend:                  *)
(* apps/accounts/models/position.py (Position.clean, Position.save,        *)
(* Position.hard_delete) over a relational store that runs every statement *)
(* in its own transaction (save and hard_delete open no transaction), and  *)
(* the Division API (api/v1/accounts: DivisionViewSet,                     *)
(* DivisionWriteSerializer).                                               *)
(***************************************************************************)
EXTENDS Integers, FiniteSets, Sequences, TLC

\* ------------------------------------------------------------------ bounds
MaxPos == 2
MaxGroup == 2
MaxLevel == 2
MaxEdits == 2
MaxDiv == 2
MaxHead == 3
MaxFill == 14

\* ------------------------------------------------------------- value sets
NULL == 0
PosIds == 1..MaxPos
\* levels as the model's docstring numbers them (Level 1 -> Staff, ...)
Levels == 1..MaxLevel
Names == {"Staff", "Manager"}
Codes == {"STF", "MGR"}
Users == {"u1"}
\* the callers whose Position writes can overlap
Procs == {"w1", "w2"}

VARIABLES
    positions,  \* table "positions": pk -> row
    groups,     \* table auth_group: pk -> name
    userPos,    \* users.position_id
    nextPos,    \* next pk of table "positions"
    nextGroup,  \* next pk of table auth_group
    last,       \* the call that finished last: its arguments and its result
    members,    \* table users_groups: user -> the groups the user is in
    inactive,   \* the Positions whose is_active is False
    calls,      \* per caller: the save() it is in, its instance and position
    divisions,  \* table of Division: pk -> row
    userDiv,    \* users.division_id
    nextDiv     \* next pk of the Division table

vars == <<positions, groups, userPos, nextPos, nextGroup, last,
          members, inactive, calls, divisions, userDiv, nextDiv>>

\* what the Position writes of Position.save and hard_delete never touch
others == <<members, inactive, calls, divisions, userDiv, nextDiv>>

\* f"{self.name}": the label without its prefix
GroupLabelBare(name) == <<name>>

\* f"Position: {self.name}"
GroupLabel(name) == <<"Position: ", name>>

\* ------------------------------------------------- constraints of the store
\* unique_together (level, code) alone, without unique=True on code
CodeTakenAtLevel(pos, pk, inst) ==
    \E q \in DOMAIN pos :
        q # pk /\ pos[q].code = inst.code /\ pos[q].level = inst.level

\* code declared without unique=True and without unique_together
CodeTakenNever(pos, pk, inst) == FALSE

\* Position.code: unique=True
CodeTaken(pos, pk, inst) ==
    \E q \in DOMAIN pos : q # pk /\ pos[q].code = inst.code

\* Position.group declared as a ForeignKey: any number of rows per group
GroupLinkShared(pos, pk, g) == FALSE

\* Position.group: OneToOneField, a group is linked by at most one row
GroupLinkTaken(pos, pk, g) ==
    g # NULL /\ \E q \in DOMAIN pos : q # pk /\ pos[q].group = g

\* django.contrib.auth Group.name is unique
GroupNameTaken(grp, gid, name) ==
    \E h \in DOMAIN grp : h # gid /\ grp[h] = name

\* Position.parent: on_delete=PROTECT, related_name="subordinates"
Subordinates(pos, pk) == {q \in DOMAIN pos : pos[q].parent = pk}

\* User.position: on_delete=PROTECT, related_name="employees"
Employees(up, pk) == {u \in DOMAIN up : up[u] = pk}

\* Position.group: on_delete=SET_NULL
SetNullGroup(pos, g) ==
    [q \in DOMAIN pos |->
        IF pos[q].group = g THEN [pos[q] EXCEPT !.group = NULL] ELSE pos[q]]

\* ------------------------------------------------------------ Position.clean
\* self.parent.level as clean() reads it: the parent instance is either the
\* row fetched from the store or, when the caller assigned parent = self,
\* the instance being saved.
ParentLevel(pos, pk, inst) ==
    IF inst.parent = pk /\ inst.parentIsSelf THEN inst.level
    ELSE pos[inst.parent].level

\* clean() with > in place of >=: equal levels pass
CleanRaisesAbove(pos, pk, inst) ==
    inst.parent # NULL /\ ParentLevel(pos, pk, inst) > inst.level

\* TRUE when clean() raises ValidationError
CleanRaises(pos, pk, inst) ==
    inst.parent # NULL /\ ParentLevel(pos, pk, inst) >= inst.level

\* ------------------------------------------------------------------ helpers
Row(inst) ==
    [name |-> inst.name, code |-> inst.code, level |-> inst.level,
     parent |-> inst.parent, group |-> inst.group]

\* What a finished call leaves for its caller: the call, the row it was made
\* on, its result, and (was) the stored name before an update or the group
\* linked before a hard_delete
Result(op, pk, was, outcome) ==
    [op |-> op, id |-> pk, was |-> was, outcome |-> outcome]

\* super().save(): INSERT or UPDATE of the row under the unique constraints
SuperSaveError(pos, pk, inst) ==
    IF CodeTaken(pos, pk, inst) THEN "DuplicateCode"
    ELSE IF GroupLinkTaken(pos, pk, inst.group) THEN "DuplicateGroup"
    ELSE "ok"

Put(f, k, v) == [x \in DOMAIN f \cup {k} |-> IF x = k THEN v ELSE f[x]]

Drop(f, k) == [x \in DOMAIN f \ {k} |-> f[x]]

\* A caller that is in no save()
Idle ==
    [pc |-> "idle", pk |-> NULL, outcome |-> "none", began |-> NULL,
     inst |-> [name |-> "", code |-> "", level |-> NULL, parent |-> NULL,
               group |-> NULL, parentIsSelf |-> FALSE]]

\* -------------------------------------------------------------------- Init
\* Empty tables, with the given users
InitWith(users) ==
    /\ positions = << >>
    /\ groups = << >>
    /\ userPos = [u \in users |-> NULL]
    /\ nextPos = 1
    /\ nextGroup = 1
    /\ last = Result("none", NULL, NULL, "ok")
    /\ members = [u \in users |-> {}]
    /\ inactive = {}
    /\ calls = [p \in Procs |-> Idle]
    /\ divisions = << >>
    /\ userDiv = [u \in users |-> NULL]
    /\ nextDiv = 1

Init == InitWith(Users)

\* User.position is set to a stored Position or cleared
UserAssign(u, pk) ==
    /\ pk \in DOMAIN positions \cup {NULL}
    /\ userPos[u] # pk
    /\ userPos' = [userPos EXCEPT ![u] = pk]
    /\ last' = Result("user_assign", NULL, NULL, "ok")
    /\ UNCHANGED <<positions, groups, nextPos, nextGroup>>

\* The instances a caller can hand to save(): references resolve in the
\* store; parentIsSelf marks parent = self assigned as the same object
Instances(pk) ==
    [name : Names, code : Codes, level : Levels,
     parent : DOMAIN positions \cup {NULL},
     group : DOMAIN groups \cup {NULL},
     parentIsSelf : {FALSE}]
    \cup
    [name : Names, code : Codes, level : Levels,
     parent : {pk} \ {NULL},
     group : DOMAIN groups \cup {NULL},
     parentIsSelf : {TRUE}]

\* The number of fields of a stored row that an edited instance changes
Edited(row, inst) ==
    (IF inst.name # row.name THEN 1 ELSE 0)
    + (IF inst.code # row.code THEN 1 ELSE 0)
    + (IF inst.level # row.level THEN 1 ELSE 0)
    + (IF inst.parent # row.parent THEN 1 ELSE 0)
    + (IF inst.group # row.group THEN 1 ELSE 0)

\* Position.save() of an instance without pk
SaveCreate(inst) ==
    /\ nextPos <= MaxPos
    /\ LET needGroup == inst.group = NULL
           label == GroupLabel(inst.name)
       IN
       IF needGroup /\ GroupNameTaken(groups, NULL, label)
       THEN \* Group.objects.create raises IntegrityError
            /\ last' = Result("create", NULL, NULL, "DuplicateGroupName")
            /\ UNCHANGED <<positions, groups, userPos, nextPos, nextGroup>>
       ELSE
         /\ needGroup => nextGroup <= MaxGroup
         /\ LET grp1 == IF needGroup THEN Put(groups, nextGroup, label)
                        ELSE groups
                ng1 == IF needGroup THEN nextGroup + 1 ELSE nextGroup
                inst1 == IF needGroup THEN [inst EXCEPT !.group = nextGroup]
                         ELSE inst
                err == IF CleanRaises(positions, NULL, inst1)
                       THEN "InvalidHierarchy"
                       ELSE SuperSaveError(positions, NULL, inst1)
            IN
            /\ groups' = grp1
            /\ nextGroup' = ng1
            /\ IF err = "ok"
               THEN /\ positions' = Put(positions, nextPos, Row(inst1))
                    /\ nextPos' = nextPos + 1
                    /\ last' = Result("create", nextPos, NULL, "ok")
               ELSE /\ UNCHANGED <<positions, nextPos>>
                    /\ last' = Result("create", NULL, NULL, err)
            /\ UNCHANGED userPos

\* the rename branch without the comparison of the names: every update of
\* a Position with a group relabels the group
NameChangedAlways(pos, pk, inst) == inst.group # NULL

\* the rename branch taken only while the stored link is the instance's link
NameChangedSameLink(pos, pk, inst) ==
    inst.group # NULL /\ pos[pk].group = inst.group /\ pos[pk].name # inst.name

\* not is_new and self.group, and old_position.name != self.name
NameChanged(pos, pk, inst) ==
    inst.group # NULL /\ pos[pk].name # inst.name

\* Position.save() of a stored instance (pk set) whose fields were edited
SaveUpdate(pk, inst) ==
    /\ pk \in DOMAIN positions
    /\ Edited(positions[pk], inst) <= MaxEdits
    /\ LET rename == NameChanged(positions, pk, inst)
           label == GroupLabel(inst.name)
       IN
       IF rename /\ GroupNameTaken(groups, inst.group, label)
       THEN \* self.group.save() raises IntegrityError
            /\ last' = Result("update", pk, positions[pk].name, "DuplicateGroupName")
            /\ UNCHANGED <<positions, groups, userPos, nextPos, nextGroup>>
       ELSE
         LET grp1 == IF rename THEN [groups EXCEPT ![inst.group] = label]
                     ELSE groups
             err == IF CleanRaises(positions, pk, inst)
                    THEN "InvalidHierarchy"
                    ELSE SuperSaveError(positions, pk, inst)
         IN
         /\ groups' = grp1
         /\ positions' = IF err = "ok"
                         THEN [positions EXCEPT ![pk] = Row(inst)]
                         ELSE positions
         /\ last' = Result("update", pk, positions[pk].name, err)
         /\ UNCHANGED <<userPos, nextPos, nextGroup>>

\* hard_delete that leaves the group alone
GroupDeleteSkipped(grp, pos, g) == <<grp, pos>>

\* self.group.delete(): the group row goes and every link to it is nulled
GroupDelete(grp, pos, g) ==
    IF g = NULL THEN <<grp, pos>> ELSE <<Drop(grp, g), SetNullGroup(pos, g)>>

\* super(AuditModel, self).delete(): the row delete of the store, refused
\* while a PROTECT foreign key still points at the row
SuperDeleteError(pos, up, pk) ==
    IF Subordinates(pos, pk) # {} \/ Employees(up, pk) # {}
    THEN "ProtectedError" ELSE "ok"

\* Position.hard_delete()
HardDelete(pk) ==
    /\ pk \in DOMAIN positions
    /\ LET gd == GroupDelete(groups, positions, positions[pk].group)
           err == SuperDeleteError(gd[2], userPos, pk)
       IN
       /\ groups' = gd[1]
       /\ positions' = IF err = "ok" THEN Drop(gd[2], pk) ELSE gd[2]
       /\ last' = Result("hard_delete", pk, positions[pk].group, err)
    /\ UNCHANGED <<userPos, nextPos, nextGroup>>

\* Position.hard_delete() cut off (process or connection lost) after
\* self.group.delete() and before the row delete
HardDeleteInterrupted(pk) ==
    /\ pk \in DOMAIN positions
    /\ positions[pk].group # NULL
    /\ LET gd == GroupDelete(groups, positions, positions[pk].group)
       IN
       /\ groups' = gd[1]
       /\ positions' = gd[2]
       /\ last' = Result("hard_delete", pk, positions[pk].group, "interrupted")
    /\ UNCHANGED <<userPos, nextPos, nextGroup>>

Next ==
    \/ \E u \in Users, pk \in PosIds \cup {NULL} :
            UserAssign(u, pk) /\ UNCHANGED others
    \/ \E inst \in Instances(NULL) : SaveCreate(inst) /\ UNCHANGED others
    \/ \E pk \in DOMAIN positions : \E inst \in Instances(pk) :
            SaveUpdate(pk, inst) /\ UNCHANGED others
    \/ \E pk \in PosIds : HardDelete(pk) /\ UNCHANGED others
    \/ \E pk \in PosIds : HardDeleteInterrupted(pk) /\ UNCHANGED others

Spec == Init /\ [][Next]_vars


\* Position.clean() called on an instance (validation before a write):
\* a pure check, nothing is stored
Clean(pk, inst) ==
    /\ pk \in DOMAIN positions \cup {NULL}
    /\ last' = Result("clean", pk,
                      [level |-> inst.level, parent |-> inst.parent,
                       parentIsSelf |-> inst.parentIsSelf],
                      IF CleanRaises(positions, pk, inst)
                      THEN "InvalidHierarchy" ELSE "ok")
    /\ UNCHANGED <<positions, groups, userPos, nextPos, nextGroup>>

\* Validation on its own: creates fill the store, clean() is applied to
\* every instance a caller can build over it
NextClean ==
    \/ \E inst \in Instances(NULL) : SaveCreate(inst) /\ UNCHANGED others
    \/ \E pk \in PosIds \cup {NULL} : \E inst \in Instances(pk) :
            Clean(pk, inst) /\ UNCHANGED others

SpecClean == Init /\ [][NextClean]_vars

\* ------------------------------------------------ save(), statement by statement
\* The caller's view of its save(): where it is (pc), the row and the
\* instance it saves, its result, and the next pk when it entered
Call(pc, pk, inst, outcome, began) ==
    [pc |-> pc, pk |-> pk, outcome |-> outcome, began |-> began, inst |-> inst]

\* what a statement of save() never touches
beside == <<userPos, last, members, inactive, divisions, userDiv, nextDiv>>

\* save() is entered with an instance: is_new = self.pk is None
Begin(p, pk, inst) ==
    /\ calls[p].pc \in {"idle", "done"}
    /\ IF pk = NULL THEN nextPos <= MaxPos
       ELSE pk \in DOMAIN positions /\ Edited(positions[pk], inst) <= MaxEdits
    /\ calls' = [calls EXCEPT ![p] = Call("entered", pk, inst, "none", nextPos)]
    /\ UNCHANGED <<positions, groups, nextPos, nextGroup>>
    /\ UNCHANGED beside

\* lines 69-76: the group is created (no pk, no group) or renamed (pk set,
\* group set, stored name differs); either statement commits on its own.
\* The read of old_position and the group's UPDATE are taken as one step.
StepGroup(p) ==
    /\ calls[p].pc = "entered"
    /\ LET c == calls[p]
           label == GroupLabel(c.inst.name)
           create == c.pk = NULL /\ c.inst.group = NULL
           rename == c.pk # NULL /\ NameChanged(positions, c.pk, c.inst)
       IN
       IF create /\ ~GroupNameTaken(groups, NULL, label)
       THEN /\ nextGroup <= MaxGroup
            /\ groups' = Put(groups, nextGroup, label)
            /\ nextGroup' = nextGroup + 1
            /\ calls' = [calls EXCEPT ![p] =
                    Call("grouped", c.pk, [c.inst EXCEPT !.group = nextGroup],
                         "none", c.began)]
       ELSE IF rename /\ ~GroupNameTaken(groups, c.inst.group, label)
       THEN /\ groups' = [groups EXCEPT ![c.inst.group] = label]
            /\ calls' = [calls EXCEPT ![p].pc = "grouped"]
            /\ UNCHANGED nextGroup
       ELSE IF create \/ rename
       THEN \* IntegrityError: the group's name is taken
            /\ calls' = [calls EXCEPT ![p].pc = "done",
                                      ![p].outcome = "DuplicateGroupName"]
            /\ UNCHANGED <<groups, nextGroup>>
       ELSE /\ calls' = [calls EXCEPT ![p].pc = "grouped"]
            /\ UNCHANGED <<groups, nextGroup>>
    /\ UNCHANGED <<positions, nextPos>>
    /\ UNCHANGED beside

\* line 78: self.clean()
StepClean(p) ==
    /\ calls[p].pc = "grouped"
    /\ calls' = IF CleanRaises(positions, calls[p].pk, calls[p].inst)
                THEN [calls EXCEPT ![p].pc = "done",
                                   ![p].outcome = "InvalidHierarchy"]
                ELSE [calls EXCEPT ![p].pc = "cleaned"]
    /\ UNCHANGED <<positions, groups, nextPos, nextGroup>>
    /\ UNCHANGED beside

\* line 79: super().save(), one INSERT or UPDATE under the constraints
StepWrite(p) ==
    /\ calls[p].pc = "cleaned"
    /\ LET c == calls[p]
           err == SuperSaveError(positions, c.pk, c.inst)
       IN
       IF err # "ok"
       THEN /\ calls' = [calls EXCEPT ![p].pc = "done", ![p].outcome = err]
            /\ UNCHANGED <<positions, nextPos>>
       ELSE IF c.pk = NULL
       THEN /\ nextPos <= MaxPos
            /\ positions' = Put(positions, nextPos, Row(c.inst))
            /\ nextPos' = nextPos + 1
            /\ calls' = [calls EXCEPT ![p].pc = "done", ![p].outcome = "ok",
                                      ![p].pk = nextPos]
       ELSE /\ positions' = [positions EXCEPT ![c.pk] = Row(c.inst)]
            /\ calls' = [calls EXCEPT ![p].pc = "done", ![p].outcome = "ok"]
            /\ UNCHANGED nextPos
    /\ UNCHANGED <<groups, nextGroup>>
    /\ UNCHANGED beside

\* One writer whose statements a reader of the store can see in between;
\* it creates Positions without handing in a group and edits stored ones,
\* keeping their group link
NextWrite ==
    \/ \E pk \in PosIds \cup {NULL} : \E inst \in Instances(pk) :
            /\ inst.group = IF pk \in DOMAIN positions
                            THEN positions[pk].group ELSE NULL
            /\ Begin("w1", pk, inst)
    \/ StepGroup("w1")
    \/ StepClean("w1")
    \/ StepWrite("w1")

SpecWrite == Init /\ [][NextWrite]_vars

\* Two callers, each creating one Position, at the same time
NextRace ==
    \/ \E p \in Procs : \E inst \in Instances(NULL) :
            calls[p].pc = "idle" /\ Begin(p, NULL, inst)
    \/ \E p \in Procs : StepGroup(p)
    \/ \E p \in Procs : StepClean(p)
    \/ \E p \in Procs : StepWrite(p)

SpecRace == Init /\ [][NextRace]_vars

\* ------------------------------------------------------- creates on their own
\* PositiveSmallIntegerField: the least value the field and its validators
\* accept
MinLevel == 0

\* The instances without pk a caller can build: level is any value of the
\* field, parent and group any stored row
NewInstances ==
    [name : Names, code : Codes, level : MinLevel..MaxLevel,
     parent : DOMAIN positions \cup {NULL},
     group : DOMAIN groups \cup {NULL},
     parentIsSelf : {FALSE}]

\* A group made outside Position.save (Group.objects.create by an
\* administrator), to be handed to a Position
GroupCreate(name) ==
    /\ nextGroup <= MaxGroup
    /\ ~GroupNameTaken(groups, NULL, name)
    /\ groups' = Put(groups, nextGroup, name)
    /\ nextGroup' = nextGroup + 1
    /\ last' = Result("group_create", nextGroup, NULL, "ok")
    /\ UNCHANGED <<positions, userPos, nextPos>>

\* Position.save() of an instance without pk; the caller keeps the instance
\* it handed in and what came back
Create(inst) ==
    /\ SaveCreate(inst)
    /\ calls' = [calls EXCEPT !["w1"] =
            Call("done", last'.id, inst, last'.outcome, nextPos)]
    /\ UNCHANGED <<members, inactive, divisions, userDiv, nextDiv>>

NextCreate ==
    \/ \E inst \in NewInstances : Create(inst)
    \/ \E n \in Names : GroupCreate(<<"Team: ", n>>) /\ UNCHANGED others

SpecCreate == Init /\ [][NextCreate]_vars

\* ------------------------------------------ group membership and deactivation
\* the users of the membership model: two can hold one Position
Holders == {"u1", "u2"}

\* a resync that takes no group to be linked by a Position
LinkedGroupsNone(pos) == {}

\* The groups some Position links (the reverse side of Position.group)
LinkedGroups(pos) == {pos[q].group : q \in DOMAIN pos} \ {NULL}

\* delete() as the row delete of the store
DroppedByDelete(pos, pk) == Drop(pos, pk)

\* delete() of the base model keeps the row
KeptByDelete(pos, pk) == pos

\* user.groups.add(group)
JoinGroup(u, g) ==
    /\ g \in DOMAIN groups
    /\ g \notin members[u]
    /\ members' = [members EXCEPT ![u] = @ \cup {g}]
    /\ last' = Result("join", NULL, NULL, "ok")
    /\ UNCHANGED <<positions, groups, userPos, nextPos, nextGroup>>
    /\ UNCHANGED <<inactive, calls, divisions, userDiv, nextDiv>>

\* position.group = g; position.save()
Relink(pk, g) ==
    /\ pk \in DOMAIN positions
    /\ g \in DOMAIN groups \cup {NULL}
    /\ g # positions[pk].group
    /\ SaveUpdate(pk, [name |-> positions[pk].name, code |-> positions[pk].code,
                       level |-> positions[pk].level,
                       parent |-> positions[pk].parent,
                       group |-> g, parentIsSelf |-> FALSE])

\* syncMembers(position): each holder leaves every Position-linked group and
\* joins the Position's group, in one step per user; nothing happens when
\* the Position links no group
SyncMembers(pk) ==
    /\ pk \in DOMAIN positions
    /\ LET g == positions[pk].group
       IN members' =
            IF g = NULL THEN members
            ELSE [u \in DOMAIN members |->
                    IF u \in Employees(userPos, pk)
                    THEN (members[u] \ LinkedGroups(positions)) \cup {g}
                    ELSE members[u]]
    /\ last' = Result("sync", pk, NULL, "ok")
    /\ UNCHANGED <<positions, groups, userPos, nextPos, nextGroup>>
    /\ UNCHANGED <<inactive, calls, divisions, userDiv, nextDiv>>

\* Position.delete(): super().delete() of the base model marks the row
\* inactive
SoftDelete(pk) ==
    /\ pk \in DOMAIN positions
    /\ inactive' = inactive \cup {pk}
    /\ positions' = KeptByDelete(positions, pk)
    /\ last' = Result("soft_delete", pk, NULL, "ok")
    /\ UNCHANGED <<groups, userPos, nextPos, nextGroup>>
    /\ UNCHANGED <<members, calls, divisions, userDiv, nextDiv>>

\* the code each Position name goes by
CodeOf == [Staff |-> "STF", Manager |-> "MGR"]

\* The instances without pk of a flat hierarchy: one level, no parent
FlatInstances ==
    {[name |-> n, code |-> CodeOf[n], level |-> MaxLevel, parent |-> NULL,
      group |-> g, parentIsSelf |-> FALSE] :
        n \in Names, g \in DOMAIN groups \cup {NULL}}

InitAccess == InitWith(Holders)

\* Positions, the users holding them and the groups the users are in
NextAccess ==
    \/ \E inst \in FlatInstances : SaveCreate(inst) /\ UNCHANGED others
    \/ \E n \in Names : GroupCreate(<<"Team: ", n>>) /\ UNCHANGED others
    \/ \E u \in Holders, pk \in PosIds : UserAssign(u, pk) /\ UNCHANGED others
    \/ \E u \in Holders, g \in DOMAIN groups : JoinGroup(u, g)
    \/ \E pk \in PosIds, g \in DOMAIN groups \cup {NULL} :
            Relink(pk, g) /\ UNCHANGED others
    \/ \E pk \in PosIds : SyncMembers(pk)

SpecAccess == InitAccess /\ [][NextAccess]_vars

\* Positions of a hierarchy, the users holding them, and their deactivation
NextSoft ==
    \/ \E inst \in Instances(NULL) : SaveCreate(inst) /\ UNCHANGED others
    \/ \E u \in Users, pk \in PosIds : UserAssign(u, pk) /\ UNCHANGED others
    \/ \E pk \in PosIds : SoftDelete(pk)

SpecSoft == Init /\ [][NextSoft]_vars

\* ---------------------------------------------------------------- Division API
\* the codes and names a client can send
DivCodes == {"hr", "HR", "it"}
DivNames == {"HR", "Finance", "Human Resources"}

\* str.upper() on the codes a client can send
Upper(code) ==
    CASE code = "hr" -> "HR"
      [] code = "it" -> "IT"
      [] OTHER -> code

\* the Position side of the store, which the Division API never touches
positionSide == <<positions, groups, userPos, nextPos, nextGroup,
                  members, inactive, calls>>

\* The attributes a Division instance has for the users that reference it:
\* User.division is declared with related_name='employees'
DivisionAccessors == {"employees"}

\* the Users whose division is pk
DivisionUsers(ud, pk) == {u \in DOMAIN ud : ud[u] = pk}

\* a field a PATCH leaves out of its body
Absent == "<absent>"

\* what the client sent, kept with the result of the call
Sent(code, name) == [code |-> code, name |-> name]

\* validate_code looking the code up among all Divisions, the instance's
\* own row included
DivCodeTakenAny(divs, pk, code) ==
    \E d \in DOMAIN divs : divs[d].code = Upper(code)

\* DivisionWriteSerializer.validate_code: the upper-cased code is looked up
\* among the other Divisions
DivCodeTaken(divs, pk, code) ==
    \E d \in DOMAIN divs : d # pk /\ divs[d].code = Upper(code)

\* DivisionWriteSerializer.validate_name
DivNameShort(name) == Len(name) < 3

\* POST: DivisionWriteSerializer validation, then perform_create
DivisionCreate(code, name) ==
    /\ nextDiv <= MaxDiv
    /\ IF DivCodeTaken(divisions, NULL, code) \/ DivNameShort(name)
       THEN /\ last' = Result("div_create", NULL, Sent(code, name),
                               "ValidationError")
            /\ UNCHANGED <<divisions, nextDiv>>
       ELSE /\ divisions' = Put(divisions, nextDiv,
                    [code |-> Upper(code), name |-> name, active |-> TRUE])
            /\ nextDiv' = nextDiv + 1
            /\ last' = Result("div_create", nextDiv, Sent(code, name), "ok")
    /\ UNCHANGED userDiv
    /\ UNCHANGED positionSide

\* PUT or PATCH: DivisionWriteSerializer validation of the fields sent
\* (validate_<field> runs only for a field in the body), then the row
\* UPDATE with the validated values
DivisionUpdate(pk, code, name) ==
    /\ pk \in DOMAIN divisions
    /\ IF \/ code # Absent /\ DivCodeTaken(divisions, pk, code)
          \/ name # Absent /\ DivNameShort(name)
       THEN /\ last' = Result("div_update", pk, Sent(code, name),
                               "ValidationError")
            /\ UNCHANGED divisions
       ELSE /\ divisions' = [divisions EXCEPT ![pk] =
                    [code |-> IF code = Absent THEN @.code ELSE Upper(code),
                     name |-> IF name = Absent THEN @.name ELSE name,
                     active |-> @.active]]
            /\ last' = Result("div_update", pk, Sent(code, name), "ok")
    /\ UNCHANGED <<userDiv, nextDiv>>
    /\ UNCHANGED positionSide

\* User.division is set to a stored Division or cleared
UserJoinDivision(u, d) ==
    /\ d \in DOMAIN divisions \cup {NULL}
    /\ userDiv[u] # d
    /\ userDiv' = [userDiv EXCEPT ![u] = d]
    /\ last' = Result("div_assign", d, NULL, "ok")
    /\ UNCHANGED <<divisions, nextDiv>>
    /\ UNCHANGED positionSide

\* DELETE: DivisionViewSet.perform_destroy(instance). instance.user_set is
\* an attribute lookup before anything is written
PerformDestroy(pk) ==
    /\ pk \in DOMAIN divisions
    /\ IF "user_set" \notin DivisionAccessors
       THEN /\ last' = Result("destroy", pk, NULL, "AttributeError")
            /\ UNCHANGED divisions
       ELSE /\ divisions' =
                IF DivisionUsers(userDiv, pk) # {}
                THEN [divisions EXCEPT ![pk].active = FALSE]
                ELSE Drop(divisions, pk)
            /\ last' = Result("destroy", pk, NULL, "ok")
    /\ UNCHANGED <<userDiv, nextDiv>>
    /\ UNCHANGED positionSide

NextDivision ==
    \/ \E code \in DivCodes, name \in DivNames : DivisionCreate(code, name)
    \/ \E pk \in 1..MaxDiv :
       \E code \in DivCodes \cup {Absent}, name \in DivNames \cup {Absent} :
            DivisionUpdate(pk, code, name)
    \/ \E u \in Holders, d \in 1..MaxDiv \cup {NULL} : UserJoinDivision(u, d)
    \/ \E pk \in 1..MaxDiv : PerformDestroy(pk)

SpecDivision == InitAccess /\ [][NextDivision]_vars

\* ------------------------------------------------------ validate_phone_number
\* len(cleaned) < 10 or len(cleaned) > 15
MinDigits == 10
MaxDigits == 15

\* the characters \D leaves in place
DigitChars == {"0", "1", "2", "6", "8"}

\* A phone value is a sequence of characters. The values tried: every head
\* of up to MaxHead characters, then up to MaxFill digits, then a blank or
\* nothing
HeadChars == {"0", "8", "6", "2", "+", "-"}

Heads == UNION {[1..n -> HeadChars] : n \in 0..MaxHead}

Fill(k) == [i \in 1..k |-> "1"]

PhoneValues ==
    {h \o Fill(k) \o t : h \in Heads, k \in 0..MaxFill, t \in {<< >>, <<" ">>}}

IsDigit(c) == c \in DigitChars

\* re.sub(r'\D', '', value)
Cleaned(value) == SelectSeq(value, IsDigit)

\* cleaned.startswith(prefix)
StartsWith(s, prefix) ==
    Len(s) >= Len(prefix) /\ SubSeq(s, 1, Len(prefix)) = prefix

\* the length check with the upper bound left out
LengthRaisesBelow(cleaned) == Len(cleaned) < MinDigits

\* len(cleaned) < 10 or len(cleaned) > 15
LengthRaises(cleaned) == Len(cleaned) < MinDigits \/ Len(cleaned) > MaxDigits

\* validate_phone_number(value): "ok" when it returns, else the code of the
\* ValidationError it raises
ValidatePhoneNumber(value) ==
    IF value = << >> THEN "ok"
    ELSE LET cleaned == Cleaned(value)
         IN IF LengthRaises(cleaned) THEN "invalid_length"
            ELSE IF ~(\/ StartsWith(cleaned, <<"0", "8">>)
                      \/ StartsWith(cleaned, <<"6", "2">>))
            THEN "invalid_prefix"
            ELSE "ok"

\* a value is at hand, nothing is stored
InitPhone ==
    /\ \E v \in PhoneValues : last = Result("phone", NULL, v, "none")
    /\ positions = << >>
    /\ groups = << >>
    /\ userPos = [u \in Users |-> NULL]
    /\ nextPos = 1
    /\ nextGroup = 1
    /\ members = [u \in Users |-> {}]
    /\ inactive = {}
    /\ calls = [p \in Procs |-> Idle]
    /\ divisions = << >>
    /\ userDiv = [u \in Users |-> NULL]
    /\ nextDiv = 1

\* the validator is run on the value (User.phone's validators)
ValidatePhone ==
    /\ last.op = "phone"
    /\ last' = Result("validate_phone_number", NULL, last.was,
                      ValidatePhoneNumber(last.was))
    /\ UNCHANGED <<positions, groups, userPos, nextPos, nextGroup>>
    /\ UNCHANGED others

NextPhone == ValidatePhone

SpecPhone == InitPhone /\ [][NextPhone]_vars

\* ------------------------------------------------------------------ claims
Stored == DOMAIN positions

Rejected == {"InvalidHierarchy", "DuplicateCode"}

\* C1: every stored Position whose parent is set has parent.level < level,
\* whatever Position writes came before.
C1_ParentOutranksChild ==
    \A p \in Stored :
        positions[p].parent # NULL =>
            positions[positions[p].parent].level < positions[p].level

\* C2: a create rejected with InvalidHierarchy or DuplicateCode leaves the
\* stored Positions and AccessGroups exactly as they were.
C2_RejectedCreateChangesNothing ==
    [][(last'.op = "create" /\ last'.outcome \in Rejected)
        => UNCHANGED <<positions, groups>>]_vars

\* C3: an update is all-or-nothing for the linked group: rejected, no group
\* name changes; accepted with a new name, the Position and its linked group
\* both carry the new name.
C3_UpdateAllOrNothing ==
    [][last'.op = "update" =>
        /\ last'.outcome \in Rejected => groups' = groups
        /\ (/\ last'.outcome = "ok"
            /\ positions'[last'.id].name # positions[last'.id].name
            /\ positions'[last'.id].group # NULL)
           => groups'[positions'[last'.id].group]
                = <<"Position: ", positions'[last'.id].name>>]_vars

\* C4: hard_delete of a Position that has a subordinate fails and leaves the
\* Position, its linked group and the subordinates as they were.
C4_ProtectedDeleteChangesNothing ==
    [][(/\ last'.op = "hard_delete"
        /\ last'.outcome # "interrupted"
        /\ Subordinates(positions, last'.id) # {})
        => /\ last'.outcome = "ProtectedError"
           /\ UNCHANGED <<positions, groups>>]_vars

C6_CodeUnique ==
    /\ [](\A p, q \in Stored : positions[p].code = positions[q].code => p = q)
    /\ [][(last'.op \in {"create", "update"} /\ last'.outcome = "ok") =>
            \A q \in Stored \ {last'.id} :
                positions[q].code # positions'[last'.id].code]_vars

\* C6 witness: two Positions are stored and a save was just rejected with
\* DuplicateCode.
C6_Witness ==
    /\ Cardinality(Stored) = 2
    /\ last.op \in {"create", "update"}
    /\ last.outcome = "DuplicateCode"

\* C7: after a successful update that changes the name of a Position with a
\* linked group, the linked group's name is "Position: " + the new name.
C7_RenameRelabelsGroup ==
    [][(/\ last'.op = "update"
        /\ last'.outcome = "ok"
        /\ positions'[last'.id].name # positions[last'.id].name
        /\ positions'[last'.id].group # NULL)
        => /\ positions'[last'.id].group \in DOMAIN groups'
           /\ groups'[positions'[last'.id].group]
                = <<"Position: ", positions'[last'.id].name>>]_vars

\* C7 witness: a Position with a linked group was just renamed and a read of
\* the group returns the new label.
C7_Witness ==
    /\ last.op = "update"
    /\ last.outcome = "ok"
    /\ last.was # positions[last.id].name
    /\ positions[last.id].group # NULL
    /\ groups[positions[last.id].group]
         = <<"Position: ", positions[last.id].name>>

\* C8: every Position with a linked group has a group named
\* "Position: " + the Position's current name.
C8_GroupNamedAfterPosition ==
    \A p \in Stored :
        positions[p].group # NULL =>
            groups[positions[p].group] = <<"Position: ", positions[p].name>>

C10_DeleteAllOrNothing ==
    [][(last'.op = "hard_delete" /\ positions[last'.id].group # NULL)
        => LET g == positions[last'.id].group IN
           \/ /\ last'.id \in DOMAIN positions'
              /\ positions'[last'.id].group = g
              /\ g \in DOMAIN groups'
           \/ /\ last'.id \notin DOMAIN positions'
              /\ g \notin DOMAIN groups']_vars

\* C11: whatever statement of a Position write has just run, a reader of the
\* store finds no linked group labelled "Position: " + a name other than
\* its Position's, and no Position whose parent's level is >= its own.
C11_ReaderSeesNoDrift ==
    \A p \in Stored :
        /\ positions[p].group # NULL =>
            \A n \in Names \ {positions[p].name} :
                groups[positions[p].group] # <<"Position: ", n>>
        /\ positions[p].parent # NULL =>
            positions[positions[p].parent].level < positions[p].level

\* C18: of two creates with the same code that run at the same time at most
\* one succeeds, and the store never holds two Positions with one code.
C18_OneCreatePerCode ==
    /\ \A p, q \in Stored : positions[p].code = positions[q].code => p = q
    /\ \A v, w \in Procs :
        (/\ v # w
         /\ calls[v].outcome = "ok"
         /\ calls[w].outcome = "ok") => calls[v].inst.code # calls[w].inst.code

\* C18 witness: both creates entered save() on the empty table with the
\* same code; one was stored and the INSERT of the other was refused.
C18_Witness ==
    /\ calls["w1"].began = 1 /\ calls["w2"].began = 1
    /\ calls["w1"].inst.code = calls["w2"].inst.code
    /\ calls["w1"].outcome = "ok"
    /\ calls["w2"].outcome = "DuplicateCode"
    /\ Cardinality(Stored) = 1

\* C12: after a create rejected with InvalidHierarchy, a create with the same
\* name, code and group whose level and parent are valid against the store
\* (and whose code and group are free) succeeds.
C12_RejectedCreateRecoverable ==
    [][(/\ calls' # calls
        /\ calls["w1"].outcome = "InvalidHierarchy"
        /\ calls'["w1"].inst.name = calls["w1"].inst.name
        /\ calls'["w1"].inst.code = calls["w1"].inst.code
        /\ calls'["w1"].inst.group = calls["w1"].inst.group
        /\ ~CleanRaises(positions, NULL, calls'["w1"].inst)
        /\ ~CodeTaken(positions, NULL, calls'["w1"].inst)
        /\ ~GroupLinkTaken(positions, NULL, calls'["w1"].inst.group))
       => calls'["w1"].outcome = "ok"]_vars

\* C13: a successful create without a group adds exactly one group, named
\* "Position: " + name, and links it to the new Position; a successful
\* create with a group handed in adds no group and links that group.
C13_CreateLinksGroup ==
    [][(calls' # calls /\ calls'["w1"].outcome = "ok") =>
        LET i == calls'["w1"].inst
            pk == calls'["w1"].pk
        IN
        /\ pk \in DOMAIN positions' \ DOMAIN positions
        /\ \A h \in DOMAIN groups : h \in DOMAIN groups' /\ groups'[h] = groups[h]
        /\ IF i.group = NULL
           THEN /\ Cardinality(DOMAIN groups' \ DOMAIN groups) = 1
                /\ positions'[pk].group \in DOMAIN groups' \ DOMAIN groups
                /\ groups'[positions'[pk].group] = <<"Position: ", i.name>>
           ELSE /\ DOMAIN groups' = DOMAIN groups
                /\ positions'[pk].group = i.group]_vars

\* C13 witness: the last create was handed a group and linked it, and
\* another stored Position got its group from its own create.
C13_Witness ==
    /\ calls["w1"].outcome = "ok"
    /\ calls["w1"].inst.group # NULL
    /\ positions[calls["w1"].pk].group = calls["w1"].inst.group
    /\ groups[calls["w1"].inst.group][1] = "Team: "
    /\ \E q \in Stored \ {calls["w1"].pk} :
        /\ positions[q].group # NULL
        /\ groups[positions[q].group] = <<"Position: ", positions[q].name>>

\* C19: every stored Position has level >= 1.
C19_LevelPositive ==
    \A p \in Stored : positions[p].level >= 1

\* C14: no group is the linked group of two Positions.
C14_GroupLinkedOnce ==
    \A p, q \in Stored :
        (positions[p].group # NULL /\ positions[p].group = positions[q].group)
            => p = q

\* C14 witness: a write that named a group another Position links came back
\* with the store's refusal, and that link still stands.
C14_Witness ==
    /\ last.op \in {"create", "update"}
    /\ last.outcome = "DuplicateGroup"
    /\ \E q \in Stored : positions[q].group # NULL

\* C15: after a successful write that sets or changes a Position's linked
\* group, every User holding the Position is a member of that group and of
\* no group linked by another Position.
C15_WriteResyncsHolders ==
    [][\A pk \in DOMAIN positions :
        (/\ pk \in DOMAIN positions'
         /\ positions'[pk].group # positions[pk].group
         /\ positions'[pk].group # NULL)
        => \A u \in Employees(userPos', pk) :
              members'[u] \cap LinkedGroups(positions')
                  = {positions'[pk].group}]_vars

\* C16: syncMembers(B) with B linked to G leaves every holder of B in G and
\* in no other Position-linked group and leaves the memberships of every
\* other User as they were; with B's group unset it changes no membership;
\* in both cases it returns without error and touches nothing else.
C16_SyncMembers ==
    [][last'.op = "sync" =>
        LET B == last'.id
            G == positions[B].group
        IN
        /\ last'.outcome = "ok"
        /\ UNCHANGED <<positions, groups, userPos>>
        /\ IF G = NULL THEN members' = members
           ELSE \A u \in DOMAIN members :
                  IF userPos[u] = B
                  THEN members'[u] \cap LinkedGroups(positions) = {G}
                  ELSE members'[u] = members[u]]_vars

\* C16 witness: two Users hold B, B links G, another Position links another
\* group, and after syncMembers(B) both Users are in G and in no other
\* Position-linked group.
C16_Witness ==
    /\ last.op = "sync"
    /\ \A u \in Holders : userPos[u] = last.id
    /\ positions[last.id].group # NULL
    /\ Cardinality(LinkedGroups(positions)) = 2
    /\ \A u \in Holders : members[u] = {positions[last.id].group}

\* C17: Position.delete() marks the Position inactive and changes nothing
\* else: the row and its fields, the groups, the Users' positions and group
\* memberships, and the active flag of every other Position stay.
C17_SoftDeleteOnlyDeactivates ==
    [][last'.op = "soft_delete" =>
        /\ last'.id \in DOMAIN positions
        /\ inactive' = inactive \cup {last'.id}
        /\ UNCHANGED <<positions, groups, userPos, members>>]_vars

\* C17 witness: a deactivated Position that links a group, has a
\* subordinate and is held by a User.
C17_Witness ==
    /\ last.op = "soft_delete"
    /\ last.id \in inactive
    /\ positions[last.id].group \in DOMAIN groups
    /\ Subordinates(positions, last.id) # {}
    /\ Employees(userPos, last.id) # {}

\* C20: a DELETE of a Division that at least one User belongs to keeps the
\* row and sets is_active to false; a DELETE of a Division no User belongs
\* to removes the row.
C20_DestroySoftOrHard ==
    [][last'.op = "destroy" =>
        IF DivisionUsers(userDiv, last'.id) # {}
        THEN /\ last'.id \in DOMAIN divisions'
             /\ ~divisions'[last'.id].active
        ELSE last'.id \notin DOMAIN divisions']_vars

\* C21: every stored Division code is upper case and no two Divisions share
\* a code; a create or update whose code, upper-cased, is the code of
\* another Division is rejected, and an update whose code, upper-cased, is
\* the Division's own code (with a valid name or none) is accepted.
C21_DivisionCodesUpperUnique ==
    /\ \A d \in DOMAIN divisions : divisions[d].code \in {Upper(c) : c \in DivCodes}
    /\ \A d \in DOMAIN divisions : \A c \in DivCodes :
            divisions[d].code = c => Upper(c) = c
    /\ \A d, e \in DOMAIN divisions :
            divisions[d].code = divisions[e].code => d = e
    /\ last.op \in {"div_create", "div_update"} =>
        /\ (/\ last.was.code # Absent
            /\ \E d \in DOMAIN divisions \ {last.id} :
                    divisions[d].code = Upper(last.was.code))
           => last.outcome = "ValidationError"
        /\ (/\ last.op = "div_update"
            /\ Upper(last.was.code) = divisions[last.id].code
            /\ last.was.name = Absent \/ Len(last.was.name) >= 3)
           => last.outcome = "ok"

\* C21 witness: two Divisions are stored and the last call was an accepted
\* update that sent, in lower case, the code the Division already had.
C21_Witness ==
    /\ Cardinality(DOMAIN divisions) = 2
    /\ last.op = "div_update"
    /\ last.outcome = "ok"
    /\ last.was.code = "hr"
    /\ divisions[last.id].code = "HR"

\* C22: validate_phone_number accepts a value exactly when it is empty or
\* its digit characters number 10 to 15 and the first two of them are "08"
\* or "62"; a non-empty value with another digit count is refused with
\* invalid_length whatever its prefix, and one with a right count and
\* another prefix with invalid_prefix.
C22_PhoneAcceptedExactly ==
    last.op = "validate_phone_number" =>
        LET v == last.was
            at == {i \in DOMAIN v : v[i] \in {"0", "1", "2", "6", "8"}}
            n == Cardinality(at)
            first == CHOOSE i \in at : \A j \in at : i <= j
            second == CHOOSE i \in at \ {first} : \A j \in at \ {first} : i <= j
            prefixed == /\ n >= 2
                        /\ <<v[first], v[second]>> \in {<<"0", "8">>, <<"6", "2">>}
            counted == n >= 10 /\ n <= 15
        IN
        /\ last.outcome = "ok" <=> (v = << >> \/ (counted /\ prefixed))
        /\ (v # << >> /\ ~counted) => last.outcome = "invalid_length"
        /\ (v # << >> /\ counted /\ ~prefixed) => last.outcome = "invalid_prefix"

\* C22 witness: an accepted value that holds characters other than digits
\* and fifteen digits.
C22_Witness ==
    /\ last.op = "validate_phone_number"
    /\ last.outcome = "ok"
    /\ Len(last.was) > 15
    /\ Len(SelectSeq(last.was, IsDigit)) = 15

\* the Positions reached from p by following parent up to n times
Ancestors(p, n) ==
    LET up[k \in 0..n] ==
            IF k = 0 THEN {}
            ELSE LET seen == up[k - 1] \cup {p}
                 IN up[k - 1] \cup
                    ({positions[q].parent : q \in seen \cap Stored} \ {NULL})
    IN up[n]

\* C23: no stored Position is its own ancestor.
C23_HierarchyAcyclic ==
    \A p \in Stored : p \notin Ancestors(p, MaxPos)

\* C24: every group made by a Position create (Position creates are all
\* that make groups here) is the linked group of exactly one stored
\* Position.
C24_NoGroupWithoutPosition ==
    \A g \in DOMAIN groups :
        Cardinality({p \in Stored : positions[p].group = g}) = 1

\* C25: hard_delete of a Position that a User holds fails and leaves the
\* Position, its linked group and the Users' positions as they were.
C25_HeldDeleteChangesNothing ==
    [][(/\ last'.op = "hard_delete"
        /\ last'.outcome # "interrupted"
        /\ Employees(userPos, last'.id) # {})
        => /\ last'.outcome = "ProtectedError"
           /\ UNCHANGED <<positions, groups, userPos>>]_vars

\* C26: a create without a group handed in succeeds whenever its code is
\* stored on no Position and its level and parent are valid, whatever names
\* the stored Positions have.
C26_CreateWithSharedName ==
    [][(/\ calls' # calls
        /\ calls'["w1"].inst.group = NULL
        /\ ~CodeTaken(positions, NULL, calls'["w1"].inst)
        /\ ~CleanRaises(positions, NULL, calls'["w1"].inst))
       => calls'["w1"].outcome = "ok"]_vars

\* C27: an update creates no group; it changes a group's name only when the
\* name it saves differs from the stored one (the new label carries the new
\* name, no other group changes); an accepted update that keeps the name
\* changes no group, and one of a Position without a group either leaves it
\* without one or links a group that was already stored.
C27_UpdateTouchesGroupOnRename ==
    [][last'.op = "update" =>
        /\ DOMAIN groups' = DOMAIN groups
        /\ nextGroup' = nextGroup
        /\ groups' # groups =>
            \E g \in DOMAIN groups :
                /\ groups'[g][2] # positions[last'.id].name
                /\ \A h \in DOMAIN groups \ {g} : groups'[h] = groups[h]
        /\ (/\ last'.outcome = "ok"
            /\ positions'[last'.id].name = positions[last'.id].name)
           => groups' = groups
        /\ positions[last'.id].group = NULL =>
            positions'[last'.id].group \in DOMAIN groups \cup {NULL}]_vars

\* C27 witness: an accepted update kept the name of a Position that links a
\* group other than the one its create made, so the group's label still
\* carries another name.
C27_Witness ==
    /\ last.op = "update"
    /\ last.outcome = "ok"
    /\ last.was = positions[last.id].name
    /\ positions[last.id].group # NULL
    /\ groups[positions[last.id].group] # <<"Position: ", positions[last.id].name>>

====
